---- MODULE Spec2Model ----
(***************************************************************************)
(* A model of aero_util/tecio.py, the reader of Tecplot ASCII data files.  *)
(*                                                                         *)
(* A text is a sequence of one-character strings; a stream is a text and   *)
(* a read position (the number of characters already consumed, as          *)
(* f.tell() reports it).  Python's str, re and shlex calls and numpy's     *)
(* fromfile/reshape/squeeze are operators on such sequences, written from  *)
(* what the calls do on the characters.                                    *)
(***************************************************************************)
EXTENDS Integers, Sequences, FiniteSets, TLC

\* ------------------------------------------------------------------------
\* Characters and plain sequence helpers
\* ------------------------------------------------------------------------
NL == "\n"
SP == " "
DIGITS == {"0", "1", "2", "3", "4", "5", "6", "7", "8", "9"}
LOWER == <<"a","b","c","d","e","f","g","h","i","j","k","l","m",
           "n","o","p","q","r","s","t","u","v","w","x","y","z">>
UPPER == <<"A","B","C","D","E","F","G","H","I","J","K","L","M",
           "N","O","P","Q","R","S","T","U","V","W","X","Y","Z">>
Range(s) == {s[n] : n \in DOMAIN s}
LETTERS == Range(LOWER) \cup Range(UPPER)

\* str.isspace, on the characters a text holds
isspace(c) == c \in {SP, NL, "\t", "\r"}

\* the class \w of the re module
isword(c) == c \in LETTERS \cup DIGITS \cup {"_"}

SetMin(S) == CHOOSE x \in S : \A y \in S : x <= y
SetMax(S) == CHOOSE x \in S : \A y \in S : y <= x

RECURSIVE Cat(_)
Cat(ss) == IF ss = <<>> THEN <<>> ELSE Head(ss) \o Cat(Tail(ss))

\* str.upper, one character
upper1(c) ==
  IF \E n \in 1..26 : LOWER[n] = c
    THEN UPPER[CHOOSE n \in 1..26 : LOWER[n] = c]
    ELSE c

\* str.upper
upper(s) == [n \in DOMAIN s |-> upper1(s[n])]

\* str.strip
strip(s) ==
  LET keep == {n \in DOMAIN s : ~isspace(s[n])}
  IN  IF keep = {} THEN <<>> ELSE SubSeq(s, SetMin(keep), SetMax(keep))

\* str.lstrip
lstrip(s) ==
  LET keep == {n \in DOMAIN s : ~isspace(s[n])}
  IN  IF keep = {} THEN <<>> ELSE SubSeq(s, SetMin(keep), Len(s))

\* str.split(): the whitespace-separated words of s
RECURSIVE split(_)
split(s) ==
  LET t == lstrip(s)
      ws == {n \in DOMAIN t : isspace(t[n])}
  IN  IF t = <<>> THEN <<>>
      ELSE IF ws = {} THEN <<t>>
      ELSE <<SubSeq(t, 1, SetMin(ws) - 1)>> \o split(SubSeq(t, SetMin(ws), Len(t)))

\* str.split(maxsplit=1): the first word, and the rest from its first
\* non-blank character on (trailing whitespace kept); one piece when nothing
\* but whitespace follows the first word, none when s is blank
split_maxsplit1(s) ==
  LET t == lstrip(s)
      ws == {n \in DOMAIN t : isspace(t[n])}
      rest == IF ws = {} THEN <<>> ELSE lstrip(SubSeq(t, SetMin(ws), Len(t)))
  IN  IF t = <<>> THEN <<>>
      ELSE IF rest = <<>> THEN <<strip(t)>>
      ELSE <<SubSeq(t, 1, SetMin(ws) - 1), rest>>

\* str.split('=', maxsplit=1)
split_eq_maxsplit1(s) ==
  LET eq == {n \in DOMAIN s : s[n] = "="}
  IN  IF eq = {} THEN <<s>>
      ELSE <<SubSeq(s, 1, SetMin(eq) - 1), SubSeq(s, SetMin(eq) + 1, Len(s))>>

\* ------------------------------------------------------------------------
\* The stream: f.readline, f.tell, f.seek on [text, pos]
\* ------------------------------------------------------------------------
\* f.readline() read at position pos: up to and including the next newline,
\* or to the end of the text; the empty text at the end of the stream
readline(text, pos) ==
  LET nl == {n \in (pos + 1)..Len(text) : text[n] = NL}
  IN  IF nl = {} THEN SubSeq(text, pos + 1, Len(text))
      ELSE SubSeq(text, pos + 1, SetMin(nl))

\* re.split('[ =]', line, maxsplit=1)[0]
first_word_of(line) ==
  LET cut == {n \in DOMAIN line : line[n] \in {SP, "="}}
  IN  IF cut = {} THEN line ELSE SubSeq(line, 1, SetMin(cut) - 1)

\* One next() of the generator _peek_line(f) entered with the stream at
\* position: readline until a non-blank line, position following every
\* blank line read, then f.seek(position) and the yield of the first word.
\* stop: the generator ended (readline returned '') with the stream at pos.
RECURSIVE _peek_line(_, _)
_peek_line(text, position) ==
  LET raw == readline(text, position)
      line == strip(raw)
  IN  IF raw = <<>> THEN [stop |-> TRUE, word |-> <<>>, pos |-> position]
      ELSE IF line # <<>>
        THEN [stop |-> FALSE, word |-> first_word_of(line), pos |-> position]
        ELSE _peek_line(text, position + Len(raw))

_TECPLOT_KEYWORDS == {
  <<"T","I","T","L","E">>,
  <<"F","I","L","E","T","Y","P","E">>,
  <<"V","A","R","I","A","B","L","E","S">>,
  <<"Z","O","N","E">>,
  <<"T","E","X","T">>,
  <<"G","E","O","M","E","T","R","Y">>,
  <<"C","U","S","T","O","M","L","A","B","E","L","S">>,
  <<"D","A","T","A","S","E","T","A","U","X","D","A","T","A">>,
  <<"V","A","R","A","U","X","D","A","T","A">> }

\* ------------------------------------------------------------------------
\* shlex.split, re.split, int and the delimiters
\* ------------------------------------------------------------------------
\* shlex.split(s): POSIX rules, whitespace-separated, a quoted stretch (' or ")
\* belongs to the word it is part of, with the quotes removed.  state: "none"
\* between words, "word" inside one, or the quote that is open.  An open quote
\* at the end raises ValueError ("No closing quotation").  The texts of this
\* model hold no backslash, the shlex escape character.
RECURSIVE shlex_scan(_, _, _, _, _)
shlex_scan(s, n, state, tok, out) ==
  IF n > Len(s)
    THEN IF state \in {"\"", "'"} THEN [err |-> "ValueError", toks |-> out]
         ELSE IF state = "word" THEN [err |-> "", toks |-> Append(out, tok)]
         ELSE [err |-> "", toks |-> out]
  ELSE LET c == s[n] IN
    IF state \in {"\"", "'"}
      THEN IF c = state THEN shlex_scan(s, n + 1, "word", tok, out)
           ELSE shlex_scan(s, n + 1, state, Append(tok, c), out)
    ELSE IF isspace(c)
      THEN IF state = "word" THEN shlex_scan(s, n + 1, "none", <<>>, Append(out, tok))
           ELSE shlex_scan(s, n + 1, "none", <<>>, out)
    ELSE IF c \in {"\"", "'"} THEN shlex_scan(s, n + 1, c, tok, out)
    ELSE shlex_scan(s, n + 1, "word", Append(tok, c), out)

shlex_split(s) == shlex_scan(s, 1, "none", <<>>, <<>>)

\* the first index >= n of s that does not hold a character of the class
\* (Len(s) + 1 when the class runs to the end)
RECURSIVE SkipSpace(_, _)
SkipSpace(s, n) == IF n <= Len(s) /\ isspace(s[n]) THEN SkipSpace(s, n + 1) ELSE n
RECURSIVE SkipWord(_, _)
SkipWord(s, n) == IF n <= Len(s) /\ isword(s[n]) THEN SkipWord(s, n + 1) ELSE n

\* A match of the pattern ,?\s*(\w+)\s*= starting at index p of s: every
\* quantifier takes its longest run (a shorter run leaves a character the
\* next element cannot match).  end = 0: no match starts at p.
key_match(s, p) ==
  LET q1 == IF p <= Len(s) /\ s[p] = "," THEN p + 1 ELSE p
      q2 == SkipSpace(s, q1)
      q3 == SkipWord(s, q2)
      q4 == SkipSpace(s, q3)
  IN  IF q3 > q2 /\ q4 <= Len(s) /\ s[q4] = "="
        THEN [end |-> q4, key |-> SubSeq(s, q2, q3 - 1)]
        ELSE [end |-> 0, key |-> <<>>]

\* re.split(',?\s*(\w+)\s*=', s): the text before the first match, then for
\* each match its group and the text up to the next match
RECURSIVE re_split_keys(_, _)
re_split_keys(s, from) ==
  LET starts == {p \in from..Len(s) : key_match(s, p).end # 0}
  IN  IF starts = {} THEN <<SubSeq(s, from, Len(s))>>
      ELSE LET p == SetMin(starts)
               m == key_match(s, p)
           IN  <<SubSeq(s, from, p - 1), m.key>> \o re_split_keys(s, m.end + 1)

\* dict(zip(tokens[1::2], tokens[2::2])).get(key, default): the value of
\* the last pair with that key
dict_get(tokens, key, default) ==
  LET at == {n \in 1..(Len(tokens) \div 2) : tokens[2 * n] = key /\ 2 * n + 1 <= Len(tokens)}
  IN  IF at = {} THEN default ELSE tokens[2 * SetMax(at) + 1]

DELIM == {"\"", "'", "(", ")", "[", "]"}

_remove_delimiters(s) ==
  IF s # <<>> /\ s[1] \in DELIM /\ s[Len(s)] \in DELIM
    THEN SubSeq(s, 2, Len(s) - 1)
    ELSE s

DIGSTR == <<"0", "1", "2", "3", "4", "5", "6", "7", "8", "9">>
digit_value(c) == (CHOOSE n \in 1..10 : DIGSTR[n] = c) - 1

RECURSIVE digits_value(_)
digits_value(ds) ==
  IF ds = <<>> THEN 0
  ELSE 10 * digits_value(SubSeq(ds, 1, Len(ds) - 1)) + digit_value(ds[Len(ds)])

\* int(s): surrounding whitespace dropped, a sign, then digits, single
\* underscores allowed between digits; anything else raises ValueError
int(s) ==
  LET t == strip(s)
      signed == t # <<>> /\ t[1] \in {"+", "-"}
      body == IF signed THEN Tail(t) ELSE t
      ok == /\ body # <<>>
            /\ \A n \in DOMAIN body : body[n] \in DIGITS \cup {"_"}
            /\ body[1] # "_" /\ body[Len(body)] # "_"
            /\ \A n \in 1..(Len(body) - 1) : ~(body[n] = "_" /\ body[n + 1] = "_")
      mag == digits_value(SelectSeq(body, LAMBDA c : c # "_"))
  IN  IF ~ok THEN [err |-> "ValueError", val |-> 0]
      ELSE [err |-> "", val |-> IF signed /\ t[1] = "-" THEN 0 - mag ELSE mag]

\* ------------------------------------------------------------------------
\* numpy: fromfile(f, count, sep=' '), reshape(order='F'), slicing, squeeze
\* ------------------------------------------------------------------------
RECURSIVE SkipDigits(_, _)
SkipDigits(s, n) == IF n <= Len(s) /\ s[n] \in DIGITS THEN SkipDigits(s, n + 1) ELSE n

RECURSIVE StripZeros(_)
StripZeros(ds) ==
  IF ds # <<>> /\ ds[Len(ds)] = "0" THEN StripZeros(SubSeq(ds, 1, Len(ds) - 1)) ELSE ds

\* The decimal number that starts at index p of s, as strtod reads it: a
\* sign, digits, a point, digits, with at least one digit.  A value is the
\* pair num / 10^scale in lowest scale, so that 1, 1.0 and +1.00 are one
\* value.  end is the index after the number; ok = FALSE when no number
\* starts at p.  The data of this model is written without exponents.
strtod(s, p) ==
  LET signed == p <= Len(s) /\ s[p] \in {"+", "-"}
      a == IF signed THEN p + 1 ELSE p
      b == SkipDigits(s, a)
      pointed == b <= Len(s) /\ s[b] = "."
      c == IF pointed THEN SkipDigits(s, b + 1) ELSE b
      ip == SubSeq(s, a, b - 1)
      fp == IF pointed THEN StripZeros(SubSeq(s, b + 1, c - 1)) ELSE <<>>
      mag == digits_value(ip \o fp)
      ok == (b - a) + (IF pointed THEN c - b - 1 ELSE 0) > 0
  IN  [ok |-> ok, end |-> c,
       val |-> [num |-> IF signed /\ s[p] = "-" THEN 0 - mag ELSE mag, scale |-> Len(fp)]]

\* The loop of numpy's text reader: read a number (leading whitespace
\* skipped), then the separator, a run of whitespace.  It stops at the
\* first text that is no number, at the end of the stream, when no
\* whitespace follows a number, and after count numbers.  One stop has no
\* position the builds agree on (after text that is no number), and there
\* the array is short and the caller's reshape raises.
RECURSIVE from_text(_, _, _, _)
from_text(text, pos, count, data) ==
  IF Len(data) >= count THEN [data |-> data, pos |-> pos]
  ELSE LET p == SkipSpace(text, pos + 1)
           x == strtod(text, p)
           q == SkipSpace(text, x.end)
       IN  IF ~x.ok THEN [data |-> data, pos |-> p - 1]
           ELSE IF q > Len(text) \/ q = x.end
             THEN [data |-> Append(data, x.val), pos |-> q - 1]
             ELSE from_text(text, q - 1, count, Append(data, x.val))

\* np.fromfile(f, count=count, sep=' ') on a stream at position pos: the
\* values read (fewer than count when the text gives out) and the position
\* the stream is left at
fromfile(text, pos, count) == from_text(text, pos, count, <<>>)

RECURSIVE Product(_)
Product(shape) == IF shape = <<>> THEN 1 ELSE Head(shape) * Product(Tail(shape))

\* An array is its shape and its elements in column-major order: element
\* (i0, i1, ...) is flat[1 + i0 + n0*(i1 + n1*(...))].
\* data.reshape(shape, order='F'); ValueError when the sizes differ
reshape_F(data, shape) ==
  IF Product(shape) # Len(data) THEN [err |-> "ValueError", shape |-> shape, flat |-> <<>>]
  ELSE [err |-> "", shape |-> shape, flat |-> data]

\* element (i0, i1, i2, i3) of a 4-axis array
at4(a, i0, i1, i2, i3) ==
  a.flat[1 + i0 + a.shape[1] * (i1 + a.shape[2] * (i2 + a.shape[3] * i3))]

\* a[v, :, :, :]
slice_first(a, v) ==
  LET n1 == a.shape[2]
      n2 == a.shape[3]
      n3 == a.shape[4]
  IN  [shape |-> <<n1, n2, n3>>,
       flat |-> [n \in 1..(n1 * n2 * n3) |->
                   at4(a, v, (n - 1) % n1, ((n - 1) \div n1) % n2, (n - 1) \div (n1 * n2))]]

\* a[:, :, :, v]
slice_last(a, v) ==
  LET n0 == a.shape[1]
      n1 == a.shape[2]
      n2 == a.shape[3]
  IN  [shape |-> <<n0, n1, n2>>,
       flat |-> [n \in 1..(n0 * n1 * n2) |->
                   at4(a, (n - 1) % n0, ((n - 1) \div n0) % n1, (n - 1) \div (n0 * n1), v)]]

\* a squeeze that removes the axes of size 1 at the end of the shape only
squeeze_trailing(a) ==
  LET m == SetMax({0} \cup {n \in DOMAIN a.shape : a.shape[n] # 1})
  IN  [shape |-> SubSeq(a.shape, 1, m), flat |-> a.flat]

\* np.squeeze: every axis of size 1 removed; the elements keep their order
squeeze(a) == [shape |-> SelectSeq(a.shape, LAMBDA n : n # 1), flat |-> a.flat]

\* str(i) for i >= 0, as the f-string of a variable name writes it
RECURSIVE str_int(_)
str_int(i) ==
  IF i < 10 THEN <<DIGSTR[i + 1]>> ELSE str_int(i \div 10) \o <<DIGSTR[(i % 10) + 1]>>

\* ------------------------------------------------------------------------
\* The words of the format
\* ------------------------------------------------------------------------
kw_VARIABLES == <<"V","A","R","I","A","B","L","E","S">>
kw_ZONE == <<"Z","O","N","E">>
kw_TITLE == <<"T","I","T","L","E">>
key_T == <<"T">>
key_I == <<"I">>
key_J == <<"J">>
key_K == <<"K">>
key_DT == <<"D","T">>
key_ZONETYPE == <<"Z","O","N","E","T","Y","P","E">>
key_DATAPACKING == <<"D","A","T","A","P","A","C","K","I","N","G">>
val_DOUBLE == <<"D","O","U","B","L","E">>
val_ORDERED == <<"O","R","D","E","R","E","D">>
val_POINT == <<"P","O","I","N","T">>
val_BLOCK == <<"B","L","O","C","K">>

\* the characters that end a zone header when a line starts with one
NUMERIC_START == {"1", "2", "3", "4", "5", "6", "8", "9", "0", "+", "-", "."}

\* ------------------------------------------------------------------------
\* Zone options and zone data
\* ------------------------------------------------------------------------
\* Lines 112-122 of _read_zone_options on the accumulated header: the
\* key/value tokens, then the seven options the reader uses.  int() of a
\* value that is no integer raises ValueError.
zone_options(header) ==
  LET pieces == re_split_keys(strip(header), 1)
      tokens == [n \in DOMAIN pieces |-> upper(strip(pieces[n]))]
      oI == dict_get(tokens, key_I, <<"1">>)
      oJ == dict_get(tokens, key_J, <<"1">>)
      oK == dict_get(tokens, key_K, <<"1">>)
      bad == int(oI).err # "" \/ int(oJ).err # "" \/ int(oK).err # ""
  IN  [err |-> IF bad THEN "ValueError" ELSE "",
       T |-> _remove_delimiters(dict_get(tokens, key_T, <<>>)),
       I |-> int(oI).val,
       J |-> int(oJ).val,
       K |-> int(oK).val,
       DT |-> split(_remove_delimiters(dict_get(tokens, key_DT, val_DOUBLE))),
       ZONETYPE |-> _remove_delimiters(dict_get(tokens, key_ZONETYPE, val_ORDERED)),
       DATAPACKING |-> _remove_delimiters(dict_get(tokens, key_DATAPACKING, val_BLOCK))]

NoOptions ==
  [err |-> "", T |-> <<>>, I |-> 0, J |-> 0, K |-> 0, DT |-> <<>>,
   ZONETYPE |-> <<>>, DATAPACKING |-> <<>>]

\* varnames = [f'V{i}' for i in range(len(line.split()))]
inferred_names(line) == [i \in 1..Len(split(line)) |-> <<"V">> \o str_int(i - 1)]

\* the reshape of line 92 (POINT) and of line 95 (BLOCK)
reshape_point(data, nvars, o) == reshape_F(data, <<nvars, o.I, o.J, o.K>>)
reshape_block(data, nvars, o) == reshape_F(data, <<o.I, o.J, o.K, nvars>>)

\* vardata of line 93 (POINT) and of line 96 (BLOCK), variable i of 0..nvars-1
vardata_point(a, i) == squeeze(slice_first(a, i))
vardata_block(a, i) == squeeze(slice_last(a, i))

\* dict(zip(varnames, vardata)): a later entry of a repeated name replaces
\* the earlier one
zip_dict(varnames, vardata) ==
  [name \in Range(varnames) |->
     vardata[SetMax({n \in DOMAIN varnames : varnames[n] = name})]]

\* the bulk read without the assertion on ZONETYPE
zone_data_any_zonetype(text, pos, varnames, o) ==
  LET nvars == Len(varnames)
      rd == fromfile(text, pos, o.I * o.J * o.K * nvars)
      point == o.DATAPACKING = val_POINT
      a == IF point THEN reshape_point(rd.data, nvars, o)
           ELSE reshape_block(rd.data, nvars, o)
      vardata == [i \in 1..nvars |->
                    IF point THEN vardata_point(a, i - 1) ELSE vardata_block(a, i - 1)]
  IN  IF a.err # "" THEN [err |-> a.err, pos |-> rd.pos, zone |-> <<>>]
      ELSE [err |-> "", pos |-> rd.pos, zone |-> zip_dict(varnames, vardata)]

\* Lines 83-98 of _read_zone: the bulk read and the split into variables.
\* err: AssertionError of line 84, or ValueError of the reshape.
zone_data(text, pos, varnames, o) ==
  LET nvars == Len(varnames)
      npts == o.I * o.J * o.K
      rd == fromfile(text, pos, npts * nvars)
      point == o.DATAPACKING = val_POINT
      a == IF point THEN reshape_point(rd.data, nvars, o)
           ELSE reshape_block(rd.data, nvars, o)
      vardata == [i \in 1..nvars |->
                    IF point THEN vardata_point(a, i - 1) ELSE vardata_block(a, i - 1)]
  IN  IF o.ZONETYPE # val_ORDERED THEN [err |-> "AssertionError", pos |-> pos, zone |-> <<>>]
      ELSE IF a.err # "" THEN [err |-> a.err, pos |-> rd.pos, zone |-> <<>>]
      ELSE [err |-> "", pos |-> rd.pos, zone |-> zip_dict(varnames, vardata)]

\* ------------------------------------------------------------------------
\* core.py: the rotation-matrix builders
\* An angle argument is None, a float or a list of floats.  An angle in
\* radians is counted in quarter turns (pi/2), an angle in degrees in
\* degrees, so that cos and sin are exact on the angles used.
\* ------------------------------------------------------------------------
None == [is |-> "None"]
Float(v) == [is |-> "float", v |-> v]
List(l) == [is |-> "list", v |-> l]

\* bool(x) of "if angles_deg:", line 176
truth(x) ==
  IF x.is = "None" THEN FALSE
  ELSE IF x.is = "float" THEN x.v # 0
  ELSE x.v # <<>>

\* np.radians of a float or of a list, element by element
radians(x) ==
  IF x.is = "float" THEN Float(x.v \div 90)
  ELSE List([n \in DOMAIN x.v |-> x.v[n] \div 90])

\* _set_angles, lines 170-178: err is the RuntimeError of line 173 or 175
_set_angles(angles, angles_deg) ==
  IF angles = None /\ angles_deg = None THEN [err |-> "RuntimeError", a |-> None]
  ELSE IF angles # None /\ angles_deg # None THEN [err |-> "RuntimeError", a |-> None]
  ELSE IF truth(angles_deg) THEN [err |-> "", a |-> radians(angles_deg)]
  ELSE [err |-> "", a |-> angles]

\* np.cos and np.sin of a number of quarter turns
cos(q) == <<1, 0, -1, 0>>[(q % 4) + 1]
sin(q) == <<0, 1, 0, -1>>[(q % 4) + 1]

Matrix(m) == [kind |-> "matrix", err |-> "", dcm |-> m]
Raised(e) == [kind |-> "error", err |-> e, dcm |-> <<>>]

\* np.eye(3) and the product a @ b
eye3 == <<<<1, 0, 0>>, <<0, 1, 0>>, <<0, 0, 1>>>>
matmul(a, b) ==
  [i \in 1..3 |-> [j \in 1..3 |-> a[i][1] * b[1][j] + a[i][2] * b[2][j] + a[i][3] * b[3][j]]]

\* the matrices of lines 126-130, 143-147 and 160-164
dcm_x(q) == <<<<1, 0, 0>>, <<0, cos(q), sin(q)>>, <<0, -sin(q), cos(q)>>>>
dcm_y(q) == <<<<cos(q), 0, -sin(q)>>, <<0, 1, 0>>, <<sin(q), 0, cos(q)>>>>
dcm_z(q) == <<<<cos(q), sin(q), 0>>, <<-sin(q), cos(q), 0>>, <<0, 0, 1>>>>

\* a builder about one axis, lines 125-130, 142-147, 159-164: np.cos of
\* None is a TypeError
rotate_about(axis, angle, angle_deg) ==
  LET r == _set_angles(angle, angle_deg)
  IN  IF r.err # "" THEN Raised(r.err)
      ELSE IF r.a.is # "float" THEN Raised("TypeError")
      ELSE Matrix(IF axis = "x" THEN dcm_x(r.a.v)
                  ELSE IF axis = "y" THEN dcm_y(r.a.v) ELSE dcm_z(r.a.v))

rotate_x(angle, angle_deg) == rotate_about("x", angle, angle_deg)
rotate_y(angle, angle_deg) == rotate_about("y", angle, angle_deg)
rotate_z(angle, angle_deg) == rotate_about("z", angle, angle_deg)

\* np.sqrt of a perfect square
sqrt(n) == CHOOSE r \in 0..n : r * r = n

\* rotate_axis, lines 77-89
rotate_axis(axis, angle, angle_deg) ==
  LET norm == sqrt(axis[1] * axis[1] + axis[2] * axis[2] + axis[3] * axis[3])
      x == axis[1] \div norm
      y == axis[2] \div norm
      z == axis[3] \div norm
      r == _set_angles(angle, angle_deg)
      c == cos(r.a.v)
      s == sin(r.a.v)
      C == 1 - c
  IN  IF r.err # "" THEN Raised(r.err)
      ELSE IF r.a.is # "float" THEN Raised("TypeError")
      ELSE Matrix(<< <<x * x * C + c, x * y * C + z * s, x * z * C - y * s>>,
                     <<y * x * C - z * s, y * y * C + c, y * z * C + x * s>>,
                     <<z * x * C + y * s, z * y * C - x * s, z * z * C + c>> >>)

\* str.lower of a rotation sequence
lower_axis(c) == IF c = "X" THEN "x" ELSE IF c = "Y" THEN "y" ELSE IF c = "Z" THEN "z" ELSE c

\* rotate_seq, lines 103-113: the loop over zip(sequence.lower(), angles),
\* from pair n on; each angle is passed on as radians
RECURSIVE seq_loop(_, _, _, _)
seq_loop(sequence, angles, n, dcm) ==
  IF n > Len(sequence) \/ n > Len(angles) THEN Matrix(dcm)
  ELSE LET axis == lower_axis(sequence[n])
           r == IF axis = "x" THEN rotate_x(Float(angles[n]), None)
                ELSE IF axis = "y" THEN rotate_y(Float(angles[n]), None)
                ELSE rotate_z(Float(angles[n]), None)
       IN  IF axis \notin {"x", "y", "z"} THEN Raised("RuntimeError")
           ELSE IF r.kind = "error" THEN r
           ELSE seq_loop(sequence, angles, n + 1, matmul(r.dcm, dcm))

\* rotate_seq, lines 102-113: zip over None is a TypeError
rotate_seq(sequence, angles, angles_deg) ==
  LET r == _set_angles(angles, angles_deg)
  IN  IF r.err # "" THEN Raised(r.err)
      ELSE IF r.a.is # "list" THEN Raised("TypeError")
      ELSE seq_loop(sequence, r.a.v, 1, eye3)

\* ------------------------------------------------------------------------
\* The reader as a state machine
\* ------------------------------------------------------------------------
VARIABLES
  scenario,        \* the calls of read_dat to make, with what their files say
  callNo,          \* the number of calls started
  returned,        \* what each finished call returned or raised
  pc,              \* where the running call is: idle, impl, variables,
                   \* zone_options, zone_names, zone_data
  text,            \* the contents of the stream f of the running call
  pos,             \* f.tell()
  zones,           \* _read_dat_impl: zones
  varnames,        \* _read_dat_impl: varnames (<<>> is None: line 74 tests
                   \* only "not varnames")
  record,          \* _read_variables: record
  header,          \* _read_zone_options: header
  options,         \* _read_zone: options
  zone_varnames,   \* _read_zone: varnames
  last             \* the step taken last

vars == <<scenario, callNo, returned, pc, text, pos, zones, varnames, record,
          header, options, zone_varnames, last>>

Document(zs) == [kind |-> "document", err |-> "", zones |-> zs]
Error(e) == [kind |-> "error", err |-> e, zones |-> <<>>]

\* the locals of a call that is not running
Locals(z, v, r, h, o, zv) ==
  /\ zones' = z
  /\ varnames' = v
  /\ record' = r
  /\ header' = h
  /\ options' = o
  /\ zone_varnames' = zv

\* An exception leaves _read_dat_impl and read_dat: the with statement of
\* line 25 closes the file and the caller gets the exception, no zones.
\* The locals stay as the raising frame left them until the next call.
Raise(e, step) ==
  /\ returned' = Append(returned, Error(e))
  /\ pc' = "idle"
  /\ last' = step
  /\ UNCHANGED <<scenario, callNo, text, pos, zones, varnames, record, header,
                 options, zone_varnames>>

\* the next() of line 39, 56 or 105 at the stream's position
Peek == _peek_line(text, pos)

\* read_dat, lines 24-26: a path is opened and read from its start
read_dat_path ==
  /\ pc = "idle"
  /\ callNo < Len(scenario.calls)
  /\ scenario.calls[callNo + 1].arg = "path"
  /\ callNo' = callNo + 1
  /\ text' = scenario.calls[callNo + 1].text
  /\ pos' = 0
  /\ pc' = "impl"
  /\ last' = "read_dat"
  /\ Locals(<<>>, <<>>, <<>>, <<>>, NoOptions, <<>>)
  /\ UNCHANGED <<scenario, returned>>

\* read_dat, lines 27-28: given a stream, line 28 reads the local f, which
\* is bound only by the with statement of the other branch
read_dat_stream ==
  /\ pc = "idle"
  /\ callNo < Len(scenario.calls)
  /\ scenario.calls[callNo + 1].arg = "stream"
  /\ callNo' = callNo + 1
  /\ text' = scenario.calls[callNo + 1].text
  /\ pos' = 0
  /\ returned' = Append(returned, Error("UnboundLocalError"))
  /\ pc' = "idle"
  /\ last' = "read_dat"
  /\ Locals(<<>>, <<>>, <<>>, <<>>, NoOptions, <<>>)
  /\ UNCHANGED scenario

\* _read_dat_impl, lines 39 and 49: the stream is exhausted
impl_return ==
  /\ pc = "impl"
  /\ Peek.stop
  /\ returned' = Append(returned, Document(zones))
  /\ pos' = Peek.pos
  /\ pc' = "idle"
  /\ last' = "impl_return"
  /\ Locals(<<>>, <<>>, <<>>, <<>>, NoOptions, <<>>)
  /\ UNCHANGED <<scenario, callNo, text>>

\* a dispatcher whose last branch does not read the line it peeked
impl_skip_no_read ==
  /\ pc = "impl"
  /\ ~Peek.stop
  /\ upper(Peek.word) \notin {kw_VARIABLES, kw_ZONE}
  /\ pos' = Peek.pos
  /\ last' = "impl_skip"
  /\ UNCHANGED <<scenario, callNo, returned, pc, text, zones, varnames, record,
                 header, options, zone_varnames>>

\* _read_dat_impl, lines 45-48: a line that opens neither record is read
\* and dropped
impl_skip ==
  /\ pc = "impl"
  /\ ~Peek.stop
  /\ upper(Peek.word) \notin {kw_VARIABLES, kw_ZONE}
  /\ pos' = Peek.pos + Len(readline(text, Peek.pos))
  /\ last' = "impl_skip"
  /\ UNCHANGED <<scenario, callNo, returned, pc, text, zones, varnames, record,
                 header, options, zone_varnames>>

\* _read_dat_impl, line 42, and _read_variables, line 55
impl_variables ==
  /\ pc = "impl"
  /\ ~Peek.stop
  /\ upper(Peek.word) = kw_VARIABLES
  /\ LET line == readline(text, Peek.pos)
         parts == split_eq_maxsplit1(line)
     IN  IF Len(parts) < 2 THEN Raise("IndexError", "impl_variables")
         ELSE /\ record' = parts[2]
              /\ pos' = Peek.pos + Len(line)
              /\ pc' = "variables"
              /\ last' = "impl_variables"
              /\ UNCHANGED <<scenario, callNo, returned, text, zones, varnames,
                             header, options, zone_varnames>>

\* a record that ends only at a keyword written in upper case
RecordEnds_cased == IF Peek.stop THEN TRUE ELSE Peek.word \in _TECPLOT_KEYWORDS

\* _read_variables, lines 56-59: the loop is left at the end of the stream
\* and at a line whose first word, in upper case, is a keyword
RecordEnds == IF Peek.stop THEN TRUE ELSE upper(Peek.word) \in _TECPLOT_KEYWORDS

\* _read_variables, lines 56-61: one more line of the record
variables_continue ==
  /\ pc = "variables"
  /\ ~RecordEnds
  /\ record' = record \o readline(text, Peek.pos)
  /\ pos' = Peek.pos + Len(readline(text, Peek.pos))
  /\ last' = "variables_continue"
  /\ UNCHANGED <<scenario, callNo, returned, pc, text, zones, varnames,
                 header, options, zone_varnames>>

\* _read_variables, lines 58-64, and the assignment of line 42
variables_return ==
  /\ pc = "variables"
  /\ RecordEnds
  /\ LET variables == shlex_split(record)
     IN  IF variables.err # "" THEN Raise(variables.err, "variables_return")
         ELSE /\ varnames' = variables.toks
              /\ pos' = Peek.pos
              /\ pc' = "impl"
              /\ last' = "variables_return"
              /\ record' = <<>>
              /\ UNCHANGED <<scenario, callNo, returned, text, zones,
                             header, options, zone_varnames>>

\* _read_dat_impl, line 44, _read_zone, line 71, and _read_zone_options,
\* line 104
impl_zone ==
  /\ pc = "impl"
  /\ ~Peek.stop
  /\ upper(Peek.word) = kw_ZONE
  /\ LET line == readline(text, Peek.pos)
         parts == split_maxsplit1(line)
     IN  IF Len(parts) < 2 THEN Raise("IndexError", "impl_zone")
         ELSE /\ header' = parts[2]
              /\ pos' = Peek.pos + Len(line)
              /\ pc' = "zone_options"
              /\ last' = "impl_zone"
              /\ zone_varnames' = varnames
              /\ UNCHANGED <<scenario, callNo, returned, text, zones, varnames,
                             record, options>>

\* _read_zone_options, lines 105-107: the loop is left at the end of the
\* stream and at a line whose first character is in the string of line 106
\* (first_word[0] of an empty first word raises IndexError)
HeaderEnds ==
  IF Peek.stop \/ Peek.word = <<>> THEN TRUE ELSE Peek.word[1] \in NUMERIC_START

\* _read_zone_options, lines 105-109: one more line of the header
zone_options_continue ==
  /\ pc = "zone_options"
  /\ ~HeaderEnds
  /\ header' = header \o readline(text, Peek.pos)
  /\ pos' = Peek.pos + Len(readline(text, Peek.pos))
  /\ last' = "zone_options_continue"
  /\ UNCHANGED <<scenario, callNo, returned, pc, text, zones, varnames, record,
                 options, zone_varnames>>

\* _read_zone_options, lines 106-124
zone_options_return ==
  /\ pc = "zone_options"
  /\ HeaderEnds
  /\ LET o == zone_options(header)
     IN  IF ~Peek.stop /\ Peek.word = <<>> THEN Raise("IndexError", "zone_options_return")
         ELSE IF o.err # "" THEN Raise(o.err, "zone_options_return")
         ELSE /\ options' = o
              /\ pos' = Peek.pos
              /\ pc' = "zone_names"
              /\ last' = "zone_options_return"
              /\ header' = <<>>
              /\ UNCHANGED <<scenario, callNo, returned, text, zones, varnames,
                             record, zone_varnames>>

\* _read_zone, lines 73-81: with no names, they are inferred from the next
\* line, which is read and the stream put back
zone_names ==
  /\ pc = "zone_names"
  /\ IF zone_varnames # <<>>
       THEN /\ zone_varnames' = zone_varnames
            /\ pc' = "zone_data"
            /\ last' = "zone_names"
            /\ UNCHANGED <<scenario, callNo, returned, text, pos, zones, varnames,
                           record, header, options>>
       ELSE IF options.DATAPACKING # val_POINT
         THEN Raise("AssertionError", "zone_names")
         ELSE /\ zone_varnames' = inferred_names(readline(text, pos))
              /\ pc' = "zone_data"
              /\ last' = "zone_names"
              /\ UNCHANGED <<scenario, callNo, returned, text, pos, zones, varnames,
                             record, header, options>>

\* _read_zone, lines 83-98, and the append of line 44
zone_read ==
  /\ pc = "zone_data"
  /\ LET z == zone_data(text, pos, zone_varnames, options)
     IN  IF z.err # "" THEN Raise(z.err, "zone_read")
         ELSE /\ zones' = Append(zones, z.zone)
              /\ pos' = z.pos
              /\ pc' = "impl"
              /\ last' = "zone_read"
              /\ UNCHANGED <<scenario, callNo, returned, text, varnames, record,
                             header, options, zone_varnames>>

\* a call of a rotation builder: what it returns or raises
Built(r) ==
  /\ pc = "idle"
  /\ callNo < Len(scenario.calls)
  /\ callNo' = callNo + 1
  /\ returned' = Append(returned, r)
  /\ UNCHANGED <<scenario, pc, text, pos, zones, varnames, record, header,
                 options, zone_varnames>>

\* the argument list of the next call
Args == scenario.calls[callNo + 1].lf

call_rotate_x ==
  /\ callNo < Len(scenario.calls)
  /\ scenario.calls[callNo + 1].arg = "rotate_x"
  /\ Built(rotate_x(Args.angle, Args.angle_deg))
  /\ last' = "rotate_x"

call_rotate_y ==
  /\ callNo < Len(scenario.calls)
  /\ scenario.calls[callNo + 1].arg = "rotate_y"
  /\ Built(rotate_y(Args.angle, Args.angle_deg))
  /\ last' = "rotate_y"

call_rotate_z ==
  /\ callNo < Len(scenario.calls)
  /\ scenario.calls[callNo + 1].arg = "rotate_z"
  /\ Built(rotate_z(Args.angle, Args.angle_deg))
  /\ last' = "rotate_z"

call_rotate_axis ==
  /\ callNo < Len(scenario.calls)
  /\ scenario.calls[callNo + 1].arg = "rotate_axis"
  /\ Built(rotate_axis(Args.axis, Args.angle, Args.angle_deg))
  /\ last' = "rotate_axis"

call_rotate_seq ==
  /\ callNo < Len(scenario.calls)
  /\ scenario.calls[callNo + 1].arg = "rotate_seq"
  /\ Built(rotate_seq(Args.sequence, Args.angle, Args.angle_deg))
  /\ last' = "rotate_seq"

\* ------------------------------------------------------------------------
\* The files read: each scenario is a list of calls of read_dat, each call
\* with the text of its file and what the file says (lf).  A file is written
\* line by line from the values it holds.
\* ------------------------------------------------------------------------
MaxDim == 2      \* extents I, J, K of a zone run over 1..MaxDim
MaxVars == 2     \* a file declares 1..MaxVars variables
MaxZones == 2    \* a file holds up to MaxZones zones

RECURSIVE Join(_, _)
Join(words, sep) ==
  IF words = <<>> THEN <<>>
  ELSE IF Len(words) = 1 THEN words[1]
  ELSE words[1] \o sep \o Join(Tail(words), sep)

\* the lines of a file, each ended by a newline
TextOf(lines) == Cat([n \in DOMAIN lines |-> lines[n] \o <<NL>>])

\* a value written as the files of the format write it, 7 as 7.0
Num(n) == str_int(n) \o <<".", "0">>
Value(n) == [num |-> n, scale |-> 0]

\* the payload lines: the numbers of payload, perline to a line
RECURSIVE Chunk(_, _)
Chunk(payload, perline) ==
  IF payload = <<>> THEN <<>>
  ELSE IF Len(payload) <= perline THEN <<Join([n \in DOMAIN payload |-> Num(payload[n])], <<SP>>)>>
  ELSE <<Join([n \in 1..perline |-> Num(payload[n])], <<SP>>)>>
         \o Chunk(SubSeq(payload, perline + 1, Len(payload)), perline)

Item(key, val) == key \o <<"=">> \o val
Quoted(s) == <<"\"">> \o s \o <<"\"">>
ZoneLine(items) == Join(<<kw_ZONE>> \o items, <<SP>>)
VariablesLine(names) ==
  kw_VARIABLES \o <<SP, "=", SP>> \o Join([n \in DOMAIN names |-> Quoted(names[n])], <<SP>>)

NAMES == << <<"X">>, <<"Y">>, <<"Z">>, <<"W">> >>
Names(nvars) == SubSeq(NAMES, 1, nvars)

\* The value of variable v (from 0) at point n (from 0, I fastest) of a data
\* set of npts points whose first value is base: all values differ.
Datum(base, npts, v, n) == base + v * npts + n

\* the data set in POINT packing: the variables of a point together
PointPayload(base, nvars, npts) ==
  [p \in 1..(nvars * npts) |-> Datum(base, npts, (p - 1) % nvars, (p - 1) \div nvars)]

\* the data set in BLOCK packing: the points of a variable together
BlockPayload(base, nvars, npts) ==
  [p \in 1..(nvars * npts) |-> Datum(base, npts, (p - 1) \div npts, (p - 1) % npts)]

\* What a file says of one zone: the extents, the packing and the values
\* in file order.  keys: the option keys its header gives.
ZoneTruth(I, J, K, nvars, packing, payload, keys) ==
  [I |-> I, J |-> J, K |-> K, nvars |-> nvars, packing |-> packing,
   payload |-> payload, keys |-> keys]

\* What a file says: its family, the declared names and the zones
FileTruth(fam, names, recEnd, zs) ==
  [fam |-> fam, names |-> names, recEnd |-> recEnd, zs |-> zs]

Call(arg, lines, lf) == [arg |-> arg, text |-> TextOf(lines), lf |-> lf]

ALLKEYS == {key_T, key_I, key_J, key_K, key_DT, key_ZONETYPE, key_DATAPACKING}

\* The file of the end-to-end scenario: X Y over a 2 x 2 grid in POINT
LiteralLines ==
  << VariablesLine(Names(2)),
     ZoneLine(<<Item(key_I, <<"2">>), Item(key_J, <<"2">>),
                Item(key_T, Quoted(<<"r","e","c","t">>)),
                Item(key_DATAPACKING, val_POINT)>>) >>
  \o Chunk(<<1, 1, 2, 1, 2, 2, 1, 2>>, 2)

LiteralTruth ==
  FileTruth("layout", Names(2), Len(VariablesLine(Names(2))) + 1,
            <<ZoneTruth(2, 2, 1, 2, val_POINT, <<1, 1, 2, 1, 2, 2, 1, 2>>,
                        {key_I, key_J, key_T, key_DATAPACKING})>>)

\* Family "layout": one VARIABLES line, one zone with every key but DT and
\* ZONETYPE, the payload complete.  order: which key closes the header.
LayoutItems(I, J, K, packing, order) ==
  LET dims == <<Item(key_I, str_int(I)), Item(key_J, str_int(J)), Item(key_K, str_int(K))>>
      title == Item(key_T, Quoted(<<"r","e","c","t">>))
      pack == Item(key_DATAPACKING, packing)
  IN  IF order = "packing_last" THEN dims \o <<title, pack>>
      ELSE IF order = "extent_last" THEN <<title, pack>> \o dims
      ELSE dims \o <<pack, title>>

LayoutLines(nvars, I, J, K, packing, order, base) ==
  << VariablesLine(Names(nvars)), ZoneLine(LayoutItems(I, J, K, packing, order)) >>
  \o (IF packing = val_POINT
        THEN Chunk(PointPayload(base, nvars, I * J * K), nvars)
        ELSE Chunk(BlockPayload(base, nvars, I * J * K), I))

LayoutTruth(nvars, I, J, K, packing, base) ==
  FileTruth("layout", Names(nvars), Len(VariablesLine(Names(nvars))) + 1,
            <<ZoneTruth(I, J, K, nvars, packing,
                        IF packing = val_POINT THEN PointPayload(base, nvars, I * J * K)
                        ELSE BlockPayload(base, nvars, I * J * K),
                        {key_I, key_J, key_K, key_T, key_DATAPACKING})>>)

LayoutCall(arg, nvars, I, J, K, packing, order, base) ==
  Call(arg, LayoutLines(nvars, I, J, K, packing, order, base),
       LayoutTruth(nvars, I, J, K, packing, base))

ORDERS == {"packing_last", "extent_last", "title_last"}
BASES == {1, 7}

\* one data set read from its POINT file, then from its BLOCK file
PackingPairs ==
  { [calls |-> <<LayoutCall("path", nvars, I, J, K, val_POINT, order, base),
                 LayoutCall("path", nvars, I, J, K, val_BLOCK, order, base)>>] :
      nvars \in 1..MaxVars, I \in 1..MaxDim, J \in 1..MaxDim, K \in 1..MaxDim,
      order \in ORDERS, base \in BASES }

\* one file read by its path, then from an open stream
StreamPairs ==
  { [calls |-> <<Call("path", LiteralLines, LiteralTruth),
                 Call("stream", LiteralLines, LiteralTruth)>>] }
  \cup
  { [calls |-> <<LayoutCall("path", nvars, I, 1, 1, packing, "title_last", 1),
                 LayoutCall("stream", nvars, I, 1, 1, packing, "title_last", 1)>>] :
      nvars \in 1..MaxVars, I \in 1..MaxDim, packing \in {val_POINT, val_BLOCK} }

\* Family "multi": one VARIABLES line, then 1..MaxZones zones, each with
\* its own extents and packing and a complete payload.
MultiDims == {<<MaxDim, 1, 1>>, <<1, MaxDim, 1>>, <<MaxDim, MaxDim, 1>>}
MultiKinds == {[dims |-> d, packing |-> pk] : d \in MultiDims, pk \in {val_POINT, val_BLOCK}}
MultiBase(base, z) == base + 20 * (z - 1)

MultiZoneLines(kind, base) ==
  LET npts == kind.dims[1] * kind.dims[2] * kind.dims[3]
  IN  <<ZoneLine(<<Item(key_I, str_int(kind.dims[1])), Item(key_J, str_int(kind.dims[2])),
                   Item(key_DATAPACKING, kind.packing),
                   Item(key_T, Quoted(<<"z">>))>>)>>
      \o (IF kind.packing = val_POINT
            THEN Chunk(PointPayload(base, MaxVars, npts), MaxVars)
            ELSE Chunk(BlockPayload(base, MaxVars, npts), kind.dims[1]))

MultiZoneTruth(kind, base) ==
  LET npts == kind.dims[1] * kind.dims[2] * kind.dims[3]
  IN  ZoneTruth(kind.dims[1], kind.dims[2], kind.dims[3], MaxVars, kind.packing,
                IF kind.packing = val_POINT THEN PointPayload(base, MaxVars, npts)
                ELSE BlockPayload(base, MaxVars, npts),
                {key_I, key_J, key_DATAPACKING, key_T})

MultiKindSeqs == UNION {[1..n -> MultiKinds] : n \in 1..MaxZones}

MultiFiles ==
  { [calls |-> <<Call("path",
                      <<VariablesLine(Names(MaxVars))>>
                        \o Cat([z \in DOMAIN kinds |-> MultiZoneLines(kinds[z], MultiBase(base, z))]),
                      FileTruth("multi", Names(MaxVars),
                                Len(VariablesLine(Names(MaxVars))) + 1,
                                [z \in DOMAIN kinds |-> MultiZoneTruth(kinds[z], MultiBase(base, z))]))>>] :
      kinds \in MultiKindSeqs, base \in BASES }

\* Family "err": zones that parse (two points, one variable, POINT), then
\* one zone whose header gives a ZONETYPE and a DATAPACKING or leaves them
\* out, its payload complete.  The file declares its variable or not.
val_FELINESEG == <<"F","E","L","I","N","E","S","E","G">>
val_FEPOINT == <<"F","E","P","O","I","N","T">>
val_ordered == <<"o","r","d","e","r","e","d">>
ABSENT == <<>>
ZONETYPES == {ABSENT, val_ORDERED, val_ordered, val_FELINESEG, val_FEPOINT}
PACKINGS == {ABSENT, val_POINT, val_BLOCK}

GoodZoneLines(base) ==
  <<ZoneLine(<<Item(key_I, <<"2">>), Item(key_DATAPACKING, val_POINT)>>)>>
  \o Chunk(PointPayload(base, 1, 2), 1)

ErrZoneLines(zonetype, packing, base) ==
  <<ZoneLine(<<Item(key_I, <<"2">>)>>
             \o (IF zonetype = ABSENT THEN <<>> ELSE <<Item(key_ZONETYPE, zonetype)>>)
             \o (IF packing = ABSENT THEN <<>> ELSE <<Item(key_DATAPACKING, packing)>>))>>
  \o Chunk(PointPayload(base, 1, 2), 1)

\* the claim's two fatal conditions
Unsupported(zonetype, packing, declared) ==
  \/ zonetype \notin {ABSENT, val_ORDERED, val_ordered}
  \/ ~declared /\ packing # val_POINT

ErrFiles ==
  { [calls |-> <<Call("path",
                      (IF declared THEN <<VariablesLine(Names(1))>> ELSE <<>>)
                        \o Cat([z \in 1..before |-> GoodZoneLines(MultiBase(1, z))])
                        \o ErrZoneLines(zonetype, packing, 1),
                      [fam |-> "err", names |-> IF declared THEN Names(1) ELSE <<>>,
                       recEnd |-> IF declared THEN Len(VariablesLine(Names(1))) + 1 ELSE 0,
                       zs |-> <<>>, before |-> before,
                       fatal |-> Unsupported(zonetype, packing, declared)])>>] :
      declared \in BOOLEAN, before \in 0..(MaxZones - 1),
      zonetype \in ZONETYPES, packing \in PACKINGS }

\* Family "short": one POINT zone of rows points whose payload lacks its
\* last tokens, the file ending there.  With declared names any number of
\* tokens is missing; with names to infer, whole lines are.
ShortLines(declared, ncols, rows, kept) ==
  (IF declared THEN <<VariablesLine(Names(ncols))>> ELSE <<>>)
  \o <<ZoneLine(<<Item(key_I, str_int(rows)), Item(key_DATAPACKING, val_POINT)>>)>>
  \o Chunk(SubSeq(PointPayload(1, ncols, rows), 1, kept), ncols)

ShortFiles ==
  { [calls |-> <<Call("path", ShortLines(x.declared, x.ncols, x.rows, x.kept),
                      [fam |-> "short", names |-> IF x.declared THEN Names(x.ncols) ELSE <<>>,
                       recEnd |-> IF x.declared THEN Len(VariablesLine(Names(x.ncols))) + 1 ELSE 0,
                       zs |-> <<>>, kept |-> x.kept,
                       wanted |-> x.ncols * x.rows])>>] :
      x \in { y \in [declared : BOOLEAN, ncols : 1..MaxVars, rows : 1..MaxDim,
                     kept : 0..(MaxVars * MaxDim)] :
                /\ y.kept < y.ncols * y.rows
                /\ ~y.declared => y.kept % y.ncols = 0 } }

\* Family "infer": no VARIABLES record, one POINT zone of rows points with
\* ncols values to a line, the payload complete.
VNAMES == << <<"V","0">>, <<"V","1">>, <<"V","2">>, <<"V","3">> >>

InferHeader(rows) ==
  <<ZoneLine(<<Item(key_I, str_int(rows)), Item(key_DATAPACKING, val_POINT),
               Item(key_T, Quoted(<<"z">>))>>)>>

InferFiles ==
  { [calls |-> <<Call("path",
                      InferHeader(rows) \o (IF blank THEN <<<<>>>> ELSE <<>>)
                        \o Chunk(PointPayload(base, ncols, rows), ncols),
                      [fam |-> "infer", names |-> <<>>, recEnd |-> 0,
                       zs |-> <<ZoneTruth(rows, 1, 1, ncols, val_POINT,
                                          PointPayload(base, ncols, rows),
                                          {key_I, key_DATAPACKING, key_T})>>,
                       dataAt |-> Len(TextOf(InferHeader(rows))) + (IF blank THEN 1 ELSE 0)])>>] :
      ncols \in 1..MaxVars, rows \in 1..MaxDim, base \in BASES, blank \in BOOLEAN }

\* Family "vars": a VARIABLES record of n names, the first of them on the
\* keyword's line and the others below it, one to a line or all on one
\* line, ended by a keyword line or by the end of the file.
name_xw == <<"x","w"," ","(","m",")">>
name_zone == <<"z","o","n","e">>
name_pw == <<"p","w"," ","(","P","a",")">>
POOL == <<name_xw, <<"Y">>, name_zone, name_pw>>
\* a name as the file writes it: quoted, but Y bare
Written(name) == IF name = <<"Y">> THEN name ELSE Quoted(name)
kw_variables == <<"v","a","r","i","a","b","l","e","s">>
kw_zone == <<"z","o","n","e">>

VarsRecordLines(kw, n, first, rest, blank) ==
  LET written == [m \in 1..n |-> Written(POOL[m])]
      head == kw \o <<SP, "=">>
                \o (IF first = 0 THEN <<>> ELSE <<SP>> \o Join(SubSeq(written, 1, first), <<SP>>))
      below == SubSeq(written, first + 1, n)
  IN  <<head>>
      \o (IF blank = "inner" /\ below # <<>> THEN <<<<>>>> ELSE <<>>)
      \o (IF below = <<>> THEN <<>>
          ELSE IF rest = "each" THEN below
          ELSE <<Join(below, <<SP>>)>>)
      \o (IF blank = "before_kw" THEN <<<<SP>>>> ELSE <<>>)

VarsZoneLines(zone_kw, n) ==
  <<Join(<<zone_kw, Item(key_I, <<"1">>)>>, <<SP>>)>> \o Chunk(BlockPayload(1, n, 1), 1)

VarsEndingLines(ending, n) ==
  IF ending = "ZONE" THEN VarsZoneLines(kw_ZONE, n)
  ELSE IF ending = "zone" THEN VarsZoneLines(kw_zone, n)
  ELSE IF ending = "TITLE"
    THEN <<kw_TITLE \o <<SP, "=", SP>> \o Quoted(<<"t">>)>> \o VarsZoneLines(kw_ZONE, n)
  ELSE <<>>

VarsFiles ==
  { [calls |-> <<Call("path",
                      VarsRecordLines(x.kw, x.n, x.first, x.rest, x.blank)
                        \o VarsEndingLines(x.ending, x.n),
                      [fam |-> "vars", names |-> SubSeq(POOL, 1, x.n),
                       recEnd |-> Len(TextOf(VarsRecordLines(x.kw, x.n, x.first, x.rest, x.blank))),
                       zs |-> <<>>, lines |-> Len(VarsRecordLines(x.kw, x.n, x.first, x.rest, x.blank)),
                       ending |-> x.ending])>>] :
      x \in { y \in [kw : {kw_VARIABLES, kw_variables}, n : 1..(MaxVars + 1),
                     first : 0..(MaxVars + 1), rest : {"each", "one"},
                     blank : {"none", "inner", "before_kw"},
                     ending : {"ZONE", "zone", "TITLE", "eof"}] :
                /\ y.first <= y.n
                /\ y.rest = "one" => y.first + 1 < y.n
                /\ y.blank = "inner" => y.first < y.n } }

\* Family "hdr": one declared variable and one zone whose header gives the
\* keys of a set, every one of them on the ZONE line ("inline"), on the
\* line below it ("continued"), or the first on the ZONE line and the others
\* below ("split").  An extent that is given is MaxDim.
HdrItem(key) ==
  IF key \in {key_I, key_J, key_K} THEN Item(key, str_int(MaxDim))
  ELSE IF key = key_T THEN Item(key, Quoted(<<"r","e","c","t">>))
  ELSE IF key = key_DT THEN Item(key, <<"(">> \o val_DOUBLE \o <<")">>)
  ELSE IF key = key_ZONETYPE THEN Item(key, val_ORDERED)
  ELSE Item(key, val_POINT)

KEYORDER == <<key_T, key_I, key_J, key_K, key_DT, key_ZONETYPE, key_DATAPACKING>>
HdrItems(keys) ==
  LET given == SelectSeq(KEYORDER, LAMBDA k : k \in keys)
  IN  [n \in DOMAIN given |-> HdrItem(given[n])]

HdrLines(keys, layout) ==
  LET items == HdrItems(keys)
  IN  IF layout = "inline" THEN <<ZoneLine(items)>>
      ELSE IF layout = "continued"
        THEN <<ZoneLine(<<>>)>> \o (IF items = <<>> THEN <<>> ELSE <<Join(items, <<SP>>)>>)
      ELSE IF Len(items) <= 1 THEN <<ZoneLine(items)>>
      ELSE <<ZoneLine(<<items[1]>>), Join(Tail(items), <<SP>>)>>

HdrExtent(keys, key) == IF key \in keys THEN MaxDim ELSE 1
HdrPoints(keys) == HdrExtent(keys, key_I) * HdrExtent(keys, key_J) * HdrExtent(keys, key_K)

HdrFiles ==
  { [calls |-> <<Call("path",
                      <<VariablesLine(Names(1))>> \o HdrLines(keys, layout)
                        \o Chunk(PointPayload(1, 1, HdrPoints(keys)), 1),
                      [fam |-> "hdr", names |-> Names(1),
                       recEnd |-> Len(VariablesLine(Names(1))) + 1,
                       zs |-> <<ZoneTruth(HdrExtent(keys, key_I), HdrExtent(keys, key_J),
                                          HdrExtent(keys, key_K), 1,
                                          IF key_DATAPACKING \in keys THEN val_POINT ELSE val_BLOCK,
                                          PointPayload(1, 1, HdrPoints(keys)), keys)>>,
                       layout |-> layout])>>] :
      keys \in SUBSET ALLKEYS, layout \in {"inline", "continued", "split"} }

\* Family "bound": one declared variable and one POINT zone of rows points,
\* one value to a line, whose first value is written to start with a given
\* character: a digit d as d.0, a sign as +1.0 or -1.0, the point as .5.
\* The header is one line or two, a blank line before the payload or not.
BOUNDARY == {"0","1","2","3","4","5","6","7","8","9","+","-","."}

StartsWith(ch) ==
  IF ch \in {"+", "-"} THEN <<ch, "1", ".", "0">>
  ELSE IF ch = "." THEN <<".", "5">>
  ELSE <<ch, ".", "0">>
StartValue(ch) ==
  IF ch = "+" THEN Value(1)
  ELSE IF ch = "-" THEN Value(0 - 1)
  ELSE IF ch = "." THEN [num |-> 5, scale |-> 1]
  ELSE Value(digit_value(ch))

BoundHeader(rows, lines) ==
  IF lines = 1
    THEN <<ZoneLine(<<Item(key_I, str_int(rows)), Item(key_DATAPACKING, val_POINT)>>)>>
    ELSE <<ZoneLine(<<Item(key_I, str_int(rows))>>), Item(key_DATAPACKING, val_POINT)>>
BoundPayload(ch, rows) ==
  <<StartsWith(ch)>> \o [n \in 1..(rows - 1) |-> Num(n + 1)]
BoundValues(ch, rows) ==
  <<StartValue(ch)>> \o [n \in 1..(rows - 1) |-> Value(n + 1)]

BoundFiles ==
  { [calls |-> <<Call("path",
                      <<VariablesLine(Names(1))>> \o BoundHeader(rows, lines)
                        \o (IF blank THEN <<<<>>>> ELSE <<>>) \o BoundPayload(ch, rows),
                      [fam |-> "bound", names |-> Names(1),
                       recEnd |-> Len(VariablesLine(Names(1))) + 1,
                       zs |-> <<>>,
                       start |-> ch,
                       header |-> SubSeq(TextOf(BoundHeader(rows, lines)), Len(kw_ZONE) + 2,
                                         Len(TextOf(BoundHeader(rows, lines)))),
                       dataAt |-> Len(TextOf(<<VariablesLine(Names(1))>> \o BoundHeader(rows, lines)))
                                    + (IF blank THEN 1 ELSE 0),
                       values |-> BoundValues(ch, rows)])>>] :
      ch \in BOUNDARY, rows \in 1..MaxDim, lines \in {1, 2}, blank \in BOOLEAN }

\* Family "rot": one call of a rotation builder with each of its angle
\* arguments given or left out.  Radians are given in quarter turns, degrees in
\* degrees; a list has as many angles as its sequence has axes.
QUARTERS == {0, 1, -1}
DEGREES == {0, 90, -90}
AXES == {<<1, 0, 0>>, <<0, 1, 0>>, <<0, 0, -2>>}
MaxSeq == 2
SEQUENCES == UNION {[1..n -> {"x", "y", "Z"}] : n \in 0..MaxSeq}

ScalarArgs ==
  {[fam |-> "rot", angle |-> a, angle_deg |-> d] :
     a \in {None} \cup {Float(q) : q \in QUARTERS},
     d \in {None} \cup {Float(g) : g \in DEGREES}}

ListArgs(sequence) ==
  {[fam |-> "rot", sequence |-> sequence, angle |-> a, angle_deg |-> d] :
     a \in {None} \cup {List(l) : l \in [1..Len(sequence) -> {0, 1}]},
     d \in {None} \cup {List(l) : l \in [1..Len(sequence) -> {0, 90}]}}

RotCall(arg, lf) == [arg |-> arg, text |-> <<>>, lf |-> lf]

RotCalls ==
  {RotCall(b, lf) : b \in {"rotate_x", "rotate_y", "rotate_z"}, lf \in ScalarArgs}
  \cup {RotCall("rotate_axis", [fam |-> "rot", axis |-> ax, angle |-> lf.angle,
                                angle_deg |-> lf.angle_deg]) :
          ax \in AXES, lf \in ScalarArgs}
  \cup UNION {{RotCall("rotate_seq", lf) : lf \in ListArgs(sequence)} :
                sequence \in SEQUENCES}

RotScenarios == {[calls |-> <<c>>] : c \in RotCalls}

Scenarios ==
  PackingPairs \cup StreamPairs \cup MultiFiles \cup ErrFiles \cup ShortFiles
    \cup InferFiles \cup VarsFiles \cup HdrFiles \cup BoundFiles
    \cup RotScenarios

Init ==
  /\ scenario \in Scenarios
  /\ callNo = 0
  /\ returned = <<>>
  /\ pc = "idle"
  /\ text = <<>>
  /\ pos = 0
  /\ zones = <<>>
  /\ varnames = <<>>
  /\ record = <<>>
  /\ header = <<>>
  /\ options = NoOptions
  /\ zone_varnames = <<>>
  /\ last = "init"

Next ==
  \/ read_dat_path
  \/ read_dat_stream
  \/ impl_return
  \/ impl_skip
  \/ impl_variables
  \/ variables_continue
  \/ variables_return
  \/ impl_zone
  \/ zone_options_continue
  \/ zone_options_return
  \/ zone_names
  \/ zone_read
  \/ call_rotate_x
  \/ call_rotate_y
  \/ call_rotate_z
  \/ call_rotate_axis
  \/ call_rotate_seq

Spec == Init /\ [][Next]_vars

\* every call of the scenario has returned or raised
AllReturned == pc = "idle" /\ Len(returned) = Len(scenario.calls)

\* The interpreter runs the next statement of a call as long as there is
\* one.  A step of Next is possible exactly until every call has returned,
\* so weak fairness of Next is: every call has returned, or steps go on.
FairSpec == Spec /\ ([]<>AllReturned \/ []<><<Next>>_vars)

\* ------------------------------------------------------------------------
\* What the claims speak of
\* ------------------------------------------------------------------------
Finished == 1..Len(returned)
TruthOf(c) == scenario.calls[c].lf
Running == IF callNo = 0 THEN [fam |-> "none"] ELSE TruthOf(callNo)

\* (I, J, K) with every axis of size 1 left out, and an index likewise
Squeezed(dims) == SelectSeq(dims, LAMBDA n : n # 1)
DropUnit(dims, idx) ==
  LET keep == SelectSeq(<<1, 2, 3>>, LAMBDA n : dims[n] # 1)
  IN  [n \in DOMAIN keep |-> idx[keep[n]]]

\* the element of an array at an index, column-major
RECURSIVE FIndex(_, _)
FIndex(shape, idx) ==
  IF shape = <<>> THEN 0 ELSE Head(idx) + Head(shape) * FIndex(Tail(shape), Tail(idx))
ArrayAt(a, idx) == a.flat[1 + FIndex(a.shape, idx)]

\* the payload position (from 0) of variable v at grid index (i, j, k)
PointPosition(z, v, i, j, k) == v + z.nvars * (i + z.I * j + z.I * z.J * k)
BlockPosition(z, v, i, j, k) == (i + z.I * j + z.I * z.J * k) + z.I * z.J * z.K * v
Position(z, v, i, j, k) ==
  IF z.packing = val_POINT THEN PointPosition(z, v, i, j, k) ELSE BlockPosition(z, v, i, j, k)

\* a parsed zone holds, for every name and grid index, the payload token
\* of the position its packing gives
HoldsPayload(zone, names, z) ==
  /\ DOMAIN zone = Range(names)
  /\ \A v \in 0..(z.nvars - 1) :
       /\ zone[names[v + 1]].shape = Squeezed(<<z.I, z.J, z.K>>)
       /\ \A i \in 0..(z.I - 1), j \in 0..(z.J - 1), k \in 0..(z.K - 1) :
            ArrayAt(zone[names[v + 1]], DropUnit(<<z.I, z.J, z.K>>, <<i, j, k>>))
              = Value(z.payload[1 + Position(z, v, i, j, k)])

Flat(a) == [n \in DOMAIN a.flat |-> a.flat[n].num]

\* C1: in a file of one POINT zone with declared variables, read_dat
\* returns the zone, and variable v at grid index (i, j, k) is the payload
\* token at position v + nvars*(i + I*j + I*J*k); for the literal file of
\* the end-to-end scenario X = [1,2,2,1] and Y = [1,1,2,2], column-major.
C1_PointLayout ==
  \A c \in Finished :
    (TruthOf(c).fam = "layout" /\ scenario.calls[c].arg = "path"
       /\ TruthOf(c).zs[1].packing = val_POINT)
      => /\ returned[c].kind = "document"
         /\ Len(returned[c].zones) = 1
         /\ HoldsPayload(returned[c].zones[1], TruthOf(c).names, TruthOf(c).zs[1])
         /\ TruthOf(c) = LiteralTruth
              => /\ Flat(returned[c].zones[1][<<"X">>]) = <<1, 2, 2, 1>>
                 /\ Flat(returned[c].zones[1][<<"Y">>]) = <<1, 1, 2, 2>>

\* C2: a file of one VARIABLES record and n complete zones gives n zones
\* in the order of the file, every one keyed by the declared names and
\* holding its own payload in its own shape.
C2_ZonesInOrder ==
  \A c \in Finished :
    TruthOf(c).fam = "multi"
      => /\ returned[c].kind = "document"
         /\ Len(returned[c].zones) = Len(TruthOf(c).zs)
         /\ \A z \in DOMAIN TruthOf(c).zs :
              HoldsPayload(returned[c].zones[z], TruthOf(c).names, TruthOf(c).zs[z])

\* C3: read_dat on an open stream returns what read_dat returns on the
\* path of a file with the same contents.
C3_StreamAsPath ==
  (Len(returned) = 2 /\ scenario.calls[1].arg = "path" /\ scenario.calls[2].arg = "stream"
     /\ scenario.calls[1].text = scenario.calls[2].text)
    => returned[2] = returned[1]

\* C4: a zone whose ZONETYPE is not ORDERED, and a zone with no variable
\* list known and a DATAPACKING that is not POINT, ends read_dat with an
\* error raised in that zone; the zones read before it are not returned.
C4_FatalZone ==
  \A c \in Finished :
    (TruthOf(c).fam = "err" /\ TruthOf(c).fatal)
      => /\ returned[c].kind = "error"
         /\ returned[c].zones = <<>>
         /\ c = callNo => /\ last \in {"zone_names", "zone_read"}
                          /\ Len(zones) = TruthOf(c).before

\* C4's case: the fatal zone follows a zone that was read, and the error
\* comes from the ZONETYPE check.
C4_Witness ==
  /\ Len(returned) = 1
  /\ TruthOf(1).fam = "err"
  /\ TruthOf(1).fatal
  /\ TruthOf(1).names # <<>>
  /\ returned[1].kind = "error"
  /\ last = "zone_read"
  /\ Len(zones) >= 1

\* C5: a zone whose payload gives out before I*J*K*nvars tokens are read
\* ends read_dat with an error, also when the header runs to the end of the
\* stream, with declared names and with names to infer.
C5_ShortDataFails ==
  \A c \in Finished : TruthOf(c).fam = "short" => returned[c].kind = "error"

\* C6: with no VARIABLES record and DATAPACKING=POINT the names are V0 ..
\* V{n-1}, n the columns of the zone's first data line; the inference leaves
\* the stream at the start of that line, and the payload is read from there.
C6_InferredNames ==
  /\ (Running.fam = "infer" /\ pc = "zone_data")
       => /\ zone_varnames = SubSeq(VNAMES, 1, Running.zs[1].nvars)
          /\ pos = Running.dataAt
  /\ \A c \in Finished :
       TruthOf(c).fam = "infer"
         => /\ returned[c].kind = "document"
            /\ Len(returned[c].zones) = 1
            /\ HoldsPayload(returned[c].zones[1],
                            SubSeq(VNAMES, 1, TruthOf(c).zs[1].nvars), TruthOf(c).zs[1])

\* a scenario that reads one data set in POINT packing, then in BLOCK
IsPackingPair ==
  /\ Len(scenario.calls) = 2
  /\ scenario.calls[1].arg = "path" /\ scenario.calls[2].arg = "path"
  /\ scenario.calls[1].lf.fam = "layout" /\ scenario.calls[2].lf.fam = "layout"
  /\ scenario.calls[1].lf.zs[1].packing = val_POINT
  /\ scenario.calls[2].lf.zs[1].packing = val_BLOCK

\* C7: the POINT file and the BLOCK file of one data set parse to the same
\* arrays, variable by variable.
C7_PackingsAgree ==
  (IsPackingPair /\ Len(returned) = 2)
    => /\ returned[1].kind = "document"
       /\ returned[2].kind = "document"
       /\ returned[1].zones = returned[2].zones

\* C8: every array of a zone that read_dat returns has the shape (I, J, K)
\* of its zone with every axis of size 1 removed, and I*J*K elements.
C8_SqueezedShape ==
  \A c \in Finished :
    (returned[c].kind = "document" /\ TruthOf(c).zs # <<>>)
      => /\ Len(returned[c].zones) = Len(TruthOf(c).zs)
         /\ \A z \in DOMAIN TruthOf(c).zs :
              \A name \in DOMAIN returned[c].zones[z] :
                LET a == returned[c].zones[z][name]
                    t == TruthOf(c).zs[z]
                IN  /\ a.shape = Squeezed(<<t.I, t.J, t.K>>)
                    /\ Len(a.flat) = t.I * t.J * t.K

\* C8's case: one data set of extents (1, J, K) with J, K > 1 has been
\* returned from its POINT file and from its BLOCK file, the unit axis gone.
C8_Witness ==
  /\ IsPackingPair
  /\ Len(returned) = 2
  /\ returned[1].kind = "document"
  /\ returned[2].kind = "document"
  /\ TruthOf(2).zs[1].I = 1
  /\ TruthOf(2).zs[1].J > 1
  /\ TruthOf(2).zs[1].K > 1
  /\ TruthOf(2).zs[1].nvars > 1
  /\ returned[2].zones[1][<<"Y">>].shape = <<TruthOf(2).zs[1].J, TruthOf(2).zs[1].K>>

\* C9: the VARIABLES record runs to the next non-blank line whose first
\* word is a keyword in any case; its names, a quoted name of several
\* words one entry without its quotes, are the variable list in file order,
\* and the stream is left at the start of the keyword line.
C9_VariablesRecord ==
  /\ (last = "variables_return" /\ pc = "impl")
       => /\ varnames = Running.names
          /\ pos = Running.recEnd
  /\ (last = "variables_return" /\ Running.fam = "vars") => pc = "impl"

\* C9's case: a record of three lines or more with the quoted name xw (m),
\* ended by a keyword line in lower case.
C9_Witness ==
  /\ last = "variables_return"
  /\ pc = "impl"
  /\ Running.fam = "vars"
  /\ Running.ending = "zone"
  /\ Running.lines >= 3
  /\ Len(varnames) >= 2
  /\ varnames[1] = name_xw
  /\ pos < Len(text)

\* the option of a key, and the default the format gives the key
OptionOf(o, key) ==
  CASE key = key_T -> o.T
    [] key = key_I -> o.I
    [] key = key_J -> o.J
    [] key = key_K -> o.K
    [] key = key_DT -> o.DT
    [] key = key_ZONETYPE -> o.ZONETYPE
    [] key = key_DATAPACKING -> o.DATAPACKING
DefaultOf(key) ==
  CASE key = key_T -> <<>>
    [] key \in {key_I, key_J, key_K} -> 1
    [] key = key_DT -> <<val_DOUBLE>>
    [] key = key_ZONETYPE -> val_ORDERED
    [] key = key_DATAPACKING -> val_BLOCK

\* C10: a header takes the default of every key it leaves out, whatever the
\* set of keys it gives and whether they stand on the ZONE line or below
\* it; the zone is read and returned.
C10_HeaderDefaults ==
  /\ (Running.fam = "hdr" /\ pc = "zone_names")
       => \A key \in ALLKEYS \ Running.zs[1].keys : OptionOf(options, key) = DefaultOf(key)
  /\ \A c \in Finished : TruthOf(c).fam = "hdr" => returned[c].kind = "document"

\* the number of angle arguments a call gives
GivenCount(lf) ==
  (IF lf.angle # None THEN 1 ELSE 0) + (IF lf.angle_deg # None THEN 1 ELSE 0)

\* C11: a call of rotate_x, rotate_y, rotate_z, rotate_axis or rotate_seq
\* that gives neither or both of its radians and degrees arguments raises
\* an error; a call that gives exactly one of them, zero included, returns
\* a matrix.
C11_ExactlyOneAngle ==
  \A c \in Finished :
    TruthOf(c).fam = "rot"
      => /\ GivenCount(TruthOf(c)) # 1 => returned[c].kind = "error"
         /\ GivenCount(TruthOf(c)) = 1 => returned[c].kind = "matrix"

\* C12: the header of a zone is its lines up to the next non-blank line
\* that starts with a digit, a sign or a point; for each of these thirteen
\* characters the header parser stops before that line, leaves it in the
\* stream, and the payload is read from it.
C12_HeaderBoundary ==
  /\ (Running.fam = "bound" /\ pc = "zone_options")
       => /\ Len(header) <= Len(Running.header)
          /\ header = SubSeq(Running.header, 1, Len(header))
  /\ (Running.fam = "bound" /\ last = "zone_options_return")
       => /\ pc = "zone_names"
          /\ pos = Running.dataAt
  /\ \A c \in Finished :
       TruthOf(c).fam = "bound"
         => /\ returned[c].kind = "document"
            /\ Len(returned[c].zones) = 1
            /\ returned[c].zones[1][<<"X">>].flat = TruthOf(c).values

\* C13: a peek that finds a non-blank line leaves the stream where it was
\* before the peek, blank lines lying between or not, and a second peek
\* with no read between the two returns the same token.  The steps that
\* peek and read nothing are the returns of _read_variables and of
\* _read_zone_options.
C13_PeekLeavesPosition ==
  /\ [](pc \in {"impl", "variables", "zone_options"}
          => /\ _peek_line(text, Peek.pos).word = Peek.word
             /\ _peek_line(text, Peek.pos).stop = Peek.stop)
  /\ [][(last' \in {"variables_return", "zone_options_return"} /\ pos' < Len(text'))
          => pos' = pos]_vars

\* the stream stands at the end of a line or of the text
AtLineEnd(t, p) == p = Len(t) \/ (p > 0 /\ t[p] = NL)

\* C14: every call of read_dat ends, with a Document or with an error; an
\* iteration of the dispatcher, of the VARIABLES loop and of the header
\* loop that does not leave its loop reads at least one line.
C14_Terminates ==
  /\ <>AllReturned
  /\ [](\A c \in Finished : returned[c].kind \in {"document", "error", "matrix"})
  /\ [][(/\ last' \in {"impl_skip", "impl_variables", "impl_zone",
                       "variables_continue", "zone_options_continue"}
         /\ pc' # "idle")
          => (pos' > pos /\ AtLineEnd(text', pos'))]_vars

\* C14's case: a file whose VARIABLES record runs over three lines or more
\* and is ended by a TITLE line, which the dispatcher skips, has been read
\* to its end and its Document returned.
C14_Witness ==
  /\ AllReturned
  /\ last = "impl_return"
  /\ TruthOf(1).fam = "vars"
  /\ TruthOf(1).ending = "TITLE"
  /\ TruthOf(1).lines >= 3
  /\ returned[1].kind = "document"
  /\ pos = Len(text)

====
